---- MODULE Spec2Model ----
(***************************************************************************)
(* Model of the invoice PDF service: the text wrapper, the totals           *)
(* calculator and the page composer with its section composers.            *)
(*                                                                         *)
(* Strings that the code measures or wraps are sequences of one-character  *)
(* strings.  Lengths on the page are in hundredths of a point, so that     *)
(* 595.28, 841.89 and 230 * 0.45 are integers.                              *)
(***************************************************************************)
EXTENDS Integers, Sequences, FiniteSets, TLC

(***************************************************************************)
(* Bounds of the model.                                                    *)
(***************************************************************************)
MaxLen == 5
MaxWidth == 4
MaxGlyph == 3

MaxItems == 2
MaxQuantity == 2

\* The lines of the longest remarks of a rendered invoice.
MaxRemarkLines == 16

\* The requests in flight at the same time.
MaxRequests == 2

VARIABLES
  text, maxWidth, font, fontSize, lines, wpc,   \* one call of wrapText
  tInvoice, totals, tpc,                        \* one call of computeTotals
  data, fonts, images,      \* generateInvoicePDF: its arguments
  docTotals,                \* generateInvoicePDF: const totals
  page,                     \* the drawing instructions given to the page
  calls,                    \* the chained composers called: name, top, bottom
  pc,                       \* generateInvoicePDF: the next statement
  LOGO_PATH, STAMP_PATH,    \* the asset paths resolved when the process starts
  handlers,                 \* GET /invoice: the locals of each request in flight
  docs,                     \* the PDF documents created so far
  console                   \* what the process has logged

wrapVars == <<text, maxWidth, font, fontSize, lines, wpc>>
totalsVars == <<tInvoice, totals, tpc>>
renderVars == <<data, fonts, images, docTotals, page, calls, pc>>
serverVars == <<LOGO_PATH, STAMP_PATH, handlers, docs, console>>
vars == <<wrapVars, totalsVars, renderVars, serverVars>>

\* A value that may be missing (undefined, null) is the empty sequence when
\* it is missing and <<v>> when it is the value v.
None == <<>>

Some(v) == <<v>>

(***************************************************************************)
(* Strings.                                                                *)
(***************************************************************************)
Alphabet == {"a", "W", " ", "\n"}

StringsUpTo(n) == UNION {[1..k -> Alphabet] : k \in 0..n}

\* String.prototype.split with a one-character separator: one piece more
\* than there are separators, empty pieces kept.
RECURSIVE Split(_, _)
Split(s, sep) ==
  IF \A i \in 1..Len(s) : s[i] # sep
  THEN <<s>>
  ELSE LET k == CHOOSE i \in 1..Len(s) :
                  s[i] = sep /\ \A j \in 1..(i - 1) : s[j] # sep
       IN  <<SubSeq(s, 1, k - 1)>> \o Split(SubSeq(s, k + 1, Len(s)), sep)

IsWhiteSpace(c) == c \in {" ", "\n"}

\* String.prototype.trim: white space removed at both ends.
RECURSIVE Trim(_)
Trim(s) ==
  IF s = <<>> THEN s
  ELSE IF IsWhiteSpace(s[1]) THEN Trim(Tail(s))
  ELSE IF IsWhiteSpace(s[Len(s)]) THEN Trim(SubSeq(s, 1, Len(s) - 1))
  ELSE s

\* The truth value JavaScript gives a string: the empty string is falsy.
Truthy(s) == s # <<>>

(***************************************************************************)
(* The font's width function.  A font is the advance of each glyph, in     *)
(* units per unit of font size; a line break has no advance.               *)
(***************************************************************************)
GlyphAdvance(f, c) ==
  CASE c = "a" -> f.a
    [] c = "W" -> f.W
    [] c = " " -> f.sp
    [] OTHER -> 0

RECURSIVE SumAdvance(_, _)
SumAdvance(f, s) ==
  IF s = <<>> THEN 0 ELSE GlyphAdvance(f, s[1]) + SumAdvance(f, Tail(s))

widthOfTextAtSize(f, s, size) == SumAdvance(f, s) * size

(***************************************************************************)
(* wrapText                                                                *)
(***************************************************************************)
\* The mutant takes the whole text for one paragraph.
OneParagraph(t) == <<t>>

Paragraphs(t) == Split(t, "\n")

Words(paragraph) == Split(paragraph, " ")

\* The mutant joins a word to the pending line with two spaces.
TestLineDoubleSpace(currentLine, word) ==
  IF Truthy(currentLine) THEN currentLine \o <<" ", " ">> \o word ELSE word

TestLine(currentLine, word) ==
  IF Truthy(currentLine) THEN currentLine \o <<" ">> \o word ELSE word

\* The mutant measures the pending line instead of the candidate line.
MustFlushPending(f, size, maxW, currentLine, testLine) ==
  widthOfTextAtSize(f, currentLine, size) > maxW /\ Truthy(currentLine)

MustFlush(f, size, maxW, currentLine, testLine) ==
  widthOfTextAtSize(f, testLine, size) > maxW /\ Truthy(currentLine)

\* The loop over the words of one paragraph, from word i on; st holds the
\* loop's two locals.
RECURSIVE WordLoop(_, _, _, _, _, _)
WordLoop(f, size, maxW, words, i, st) ==
  IF i > Len(words) THEN st
  ELSE LET word == words[i]
           testLine == TestLine(st.currentLine, word)
           next ==
             IF Truthy(Trim(testLine))
             THEN IF MustFlush(f, size, maxW, st.currentLine, testLine)
                  THEN [lines |-> Append(st.lines, st.currentLine),
                        currentLine |-> word]
                  ELSE [lines |-> st.lines, currentLine |-> testLine]
             ELSE st
       IN  WordLoop(f, size, maxW, words, i + 1, next)

wrapParagraph(f, size, maxW, paragraph) ==
  LET st == WordLoop(f, size, maxW, Words(paragraph), 1,
                     [lines |-> <<>>, currentLine |-> <<>>])
  IN  IF Truthy(st.currentLine) THEN Append(st.lines, st.currentLine)
      ELSE st.lines

RECURSIVE ParagraphLoop(_, _, _, _, _)
ParagraphLoop(f, size, maxW, paragraphs, i) ==
  IF i > Len(paragraphs) THEN <<>>
  ELSE wrapParagraph(f, size, maxW, paragraphs[i])
         \o ParagraphLoop(f, size, maxW, paragraphs, i + 1)

\* The mutant returns the collected lines as they are, empty or not.
AllLinesAsIs(allLines) == allLines

NonEmptyResult(allLines) ==
  IF Len(allLines) > 0 THEN allLines ELSE << <<>> >>

wrapText(t, maxW, f, size) ==
  NonEmptyResult(ParagraphLoop(f, size, maxW, Paragraphs(t), 1))

(***************************************************************************)
(* The parts of the state a specification does not use stay as they are.   *)
(***************************************************************************)
WrapIdle ==
  /\ text = <<>> /\ maxWidth = 0 /\ font = [a |-> 1, W |-> 1, sp |-> 1]
  /\ fontSize = 1 /\ lines = <<>> /\ wpc = "idle"

TotalsIdle == tInvoice = None /\ totals = None /\ tpc = "idle"

RenderIdle ==
  /\ data = None /\ fonts = None /\ images = None /\ docTotals = None
  /\ page = <<>> /\ calls = <<>> /\ pc = "idle"

ServerIdle ==
  /\ LOGO_PATH = None /\ STAMP_PATH = None
  /\ handlers = <<>> /\ docs = <<>> /\ console = <<>>

(***************************************************************************)
(* Numbers.  The amounts of an invoice are exact decimals: a quantity is a *)
(* whole number, a rate and the round-off are counted in hundredths        *)
(* (paise), a tax rate in hundredths (per cent), and every derived amount  *)
(* in ten-thousandths, the product of the two.                             *)
(***************************************************************************)
\* x || 0 for a number that may be missing.
OrZero(x) == IF x = None THEN 0 ELSE x[1]

\* invoice.taxRates?.cgst and invoice.taxRates?.sgst.
OptionalCgst(taxRates) == IF taxRates = None THEN None ELSE taxRates[1].cgst

OptionalSgst(taxRates) == IF taxRates = None THEN None ELSE taxRates[1].sgst

\* Hundredths expressed in ten-thousandths.
Fine(hundredths) == hundredths * 100

\* items.reduce((sum, item) => sum + item.quantity * item.rate, 0)
RECURSIVE ReduceItems(_, _, _)
ReduceItems(items, i, sum) ==
  IF i > Len(items) THEN sum
  ELSE ReduceItems(items, i + 1, sum + items[i].quantity * items[i].rate)

\* The mutant falls back to the usual 9 per cent when the rate is missing.
OrNinePerCent(x) == IF x = None THEN 9 ELSE x[1]

RateOrZero(x) == OrZero(x)

\* The mutant leaves the round-off out of the grand total.
GrandTotalWithoutRoundOff(baseAmount, taxTotal, roundOff) ==
  baseAmount + taxTotal

GrandTotal(baseAmount, taxTotal, roundOff) == baseAmount + taxTotal + roundOff

computeTotals(invoice) ==
  LET baseAmount == Fine(ReduceItems(invoice.items, 1, 0))
      cgstAmount == ReduceItems(invoice.items, 1, 0)
                      * RateOrZero(OptionalCgst(invoice.taxRates))
      sgstAmount == ReduceItems(invoice.items, 1, 0)
                      * RateOrZero(OptionalSgst(invoice.taxRates))
      taxTotal == cgstAmount + sgstAmount
      roundOff == Fine(OrZero(invoice.roundOff))
      grandTotal == GrandTotal(baseAmount, taxTotal, roundOff)
  IN  [baseAmount |-> baseAmount, cgstAmount |-> cgstAmount,
       sgstAmount |-> sgstAmount, taxTotal |-> taxTotal,
       roundOff |-> roundOff, grandTotal |-> grandTotal]

(***************************************************************************)
(* formatCurrency: Number.prototype.toFixed(2) of an amount counted in     *)
(* ten-thousandths, after the prefix "Rs ".                                *)
(***************************************************************************)
Digit(d) == <<"0", "1", "2", "3", "4", "5", "6", "7", "8", "9">>[d + 1]

RECURSIVE Decimal(_)
Decimal(n) ==
  IF n < 10 THEN <<Digit(n)>> ELSE Decimal(n \div 10) \o <<Digit(n % 10)>>

\* The mutant rounds up to the next hundredth.
HundredthsRoundedUp(amount) == (amount + 99) \div 100

\* The hundredths nearest to the amount, the larger of two equally near.
NearestHundredths(amount) == (amount + 50) \div 100

RECURSIVE toFixed2(_)
toFixed2(amount) ==
  IF amount < 0 THEN <<"-">> \o toFixed2(-amount)
  ELSE LET n == NearestHundredths(amount)
       IN  Decimal(n \div 100) \o <<".">>
             \o <<Digit((n % 100) \div 10), Digit(n % 10)>>

formatCurrency(amount) == <<"R", "s", " ">> \o toFixed2(amount)

(***************************************************************************)
(* The totals calculator on its own: every invoice of the bounds, totalled *)
(* once.                                                                   *)
(***************************************************************************)
SeqsUpTo(S, n) == UNION {[1..k -> S] : k \in 0..n}

\* 0, 1.50 and 3033.89, the rate of the invoice the service issues.
RateValues == {0, 150, 303389}

\* 0, 9 per cent (the rate of the invoice the service issues), 14 per cent.
TaxRateValues == {0, 9, 14}

\* 0, 0.01 (the round-off of the invoice the service issues), 0.49.
RoundOffValues == {0, 1, 49}

LineItems == [quantity : 0..MaxQuantity, rate : RateValues]

OptionalTaxRates ==
  {None} \cup {Some(r) : r \in [cgst : {None} \cup {Some(v) : v \in TaxRateValues},
                                 sgst : {None} \cup {Some(v) : v \in TaxRateValues}]}

OptionalRoundOff == {None} \cup {Some(v) : v \in RoundOffValues}

TotalsInit ==
  /\ tInvoice \in [items : SeqsUpTo(LineItems, MaxItems),
                   taxRates : OptionalTaxRates,
                   roundOff : OptionalRoundOff]
  /\ totals = None
  /\ tpc = "ready"
  /\ WrapIdle
  /\ RenderIdle
  /\ ServerIdle

TotalsCall ==
  /\ tpc = "ready"
  /\ totals' = Some(computeTotals(tInvoice))
  /\ tpc' = "returned"
  /\ UNCHANGED <<tInvoice, wrapVars, renderVars, serverVars>>

SpecTotals == TotalsInit /\ [][TotalsCall]_vars

(***************************************************************************)
(* The text wrapper on its own: every text, width budget and font of the   *)
(* bounds, wrapped once.                                                   *)
(***************************************************************************)
Fonts == [a : {1}, W : 1..MaxGlyph, sp : 0..1]

FontSizes == {1, 2}

WrapInit ==
  /\ text \in StringsUpTo(MaxLen)
  /\ maxWidth \in 0..MaxWidth
  /\ font \in Fonts
  /\ fontSize \in FontSizes
  /\ lines = <<>>
  /\ wpc = "ready"
  /\ TotalsIdle
  /\ RenderIdle
  /\ ServerIdle

WrapCall ==
  /\ wpc = "ready"
  /\ lines' = wrapText(text, maxWidth, font, fontSize)
  /\ wpc' = "returned"
  /\ UNCHANGED <<text, maxWidth, font, fontSize, totalsVars, renderVars,
               serverVars>>

SpecWrap == WrapInit /\ [][WrapCall]_vars

(***************************************************************************)
(* The page.  Lengths are in hundredths of a point.  A drawing instruction *)
(* is recorded with the coordinates the code hands to the page (origin at  *)
(* the bottom left, y upwards) and with the composer that issued it.  The  *)
(* horizontal position of a text run is not recorded: it depends on the    *)
(* measured width of literal labels, which no property here reads.         *)
(***************************************************************************)
A4_WIDTH == 59528
A4_HEIGHT == 84189
MARGIN == 2400
BORDER_WIDTH == 40
META_TABLE_WIDTH == 23000
META_GAP == 1000

\* A whole number of points.
Pt(n) == n * 100

\* The mutant takes the smaller of the two.
Smaller(a, b) == IF a <= b THEN a ELSE b

Max(a, b) == IF a >= b THEN a ELSE b

Min(a, b) == IF a <= b THEN a ELSE b

RECURSIVE Flatten(_)
Flatten(seqs) == IF seqs = <<>> THEN <<>> ELSE Head(seqs) \o Flatten(Tail(seqs))

RECURSIVE SumSeq(_)
SumSeq(s) == IF s = <<>> THEN 0 ELSE Head(s) + SumSeq(Tail(s))

\* page.drawRectangle with a border: (x, y) is the bottom left corner.
Rectangle(sec, x, y, width, height) ==
  [kind |-> "rect", sec |-> sec, x |-> x, y |-> y,
   width |-> width, height |-> height, thickness |-> BORDER_WIDTH]

\* page.drawLine.
LineSegment(sec, x1, y1, x2, y2) ==
  [kind |-> "line", sec |-> sec, x1 |-> x1, y1 |-> y1, x2 |-> x2, y2 |-> y2,
   thickness |-> BORDER_WIDTH]

\* page.drawText: what names the literal or the field drawn, chars is the
\* text when the code computes it, y the baseline.
TextRun(sec, what, chars, y, size) ==
  [kind |-> "text", sec |-> sec, what |-> what, chars |-> chars,
   y |-> y, size |-> size]

\* page.drawImage: (x, y) is the bottom left corner.
ImageBox(sec, x, y, width, height) ==
  [kind |-> "image", sec |-> sec, x |-> x, y |-> y,
   width |-> width, height |-> height]

\* What a composer does: the instructions it issues and the value it
\* returns; thrown is set when it raises instead of returning.
Drawn(prims, bottom) == [prims |-> prims, bottom |-> bottom, thrown |-> FALSE]

Thrown(prims) == [prims |-> prims, bottom |-> 0, thrown |-> TRUE]

getContentWidth == A4_WIDTH - MARGIN * 2

getLayoutDimensions ==
  LET contentWidth == getContentWidth
      leftWidth == contentWidth - META_TABLE_WIDTH - META_GAP
      leftX == MARGIN
  IN  [contentWidth |-> contentWidth, leftX |-> leftX, leftWidth |-> leftWidth,
       rightWidth |-> META_TABLE_WIDTH, rightX |-> leftX + leftWidth + META_GAP,
       gap |-> META_GAP]

\* The lines of a wrapped text drawn one below the other from firstY on.
WrappedRuns(sec, what, wrapped, firstY, step, size) ==
  [idx \in 1..Len(wrapped) |->
     TextRun(sec, what, wrapped[idx], A4_HEIGHT - (firstY + (idx - 1) * step), size)]

drawOuterBorder ==
  <<Rectangle("border", MARGIN, MARGIN, A4_WIDTH - MARGIN * 2, A4_HEIGHT - MARGIN * 2)>>

drawTitle ==
  LET titleY == A4_HEIGHT - (MARGIN - Pt(8))
  IN  <<TextRun("title", "Tax Invoice", <<>>, titleY, 14),
        TextRun("title", "(ORIGINAL FOR RECIPIENT)", <<>>, titleY, 9)>>

\* image.scale(targetWidth / image.width).
ScaleToWidth(image, targetWidth) ==
  [width |-> targetWidth, height |-> (image.height * targetWidth) \div image.width]

\* The template literals of the company block: a literal label, then a field.
Labelled(value) == <<"a", " ">> \o value

\* lines.forEach of drawCompanyHeader, from line i on: each line wrapped and
\* drawn, currentY advanced.
RECURSIVE CompanyLines(_, _, _, _, _)
CompanyLines(blockLines, i, currentY, safeTextWidth, f) ==
  IF i > Len(blockLines) THEN [prims |-> <<>>, currentY |-> currentY]
  ELSE LET lineSpacing == Pt(12)
           paragraphSpacing == Pt(2)
           wrappedLines == wrapText(blockLines[i], safeTextWidth, f.normal, 9)
           rest == CompanyLines(blockLines, i + 1,
                                currentY + Len(wrappedLines) * lineSpacing
                                  + paragraphSpacing,
                                safeTextWidth, f)
       IN  [prims |-> WrappedRuns("company", "line", wrappedLines, currentY,
                                  lineSpacing, 9) \o rest.prims,
            currentY |-> rest.currentY]

\* The mutant returns the bottom of the logo and forgets the text block.
HeaderBottomOfLogo(currentY, logoBottom) == logoBottom

\* The mutant returns the bottom of the text block and forgets the logo.
HeaderBottomOfText(currentY, logoBottom) == currentY

HeaderBottom(currentY, logoBottom) == Max(currentY, logoBottom)

drawCompanyHeader(company, top, f, logoImage) ==
  LET leftX == getLayoutDimensions.leftX
      leftWidth == getLayoutDimensions.leftWidth
      hasLogo == logoImage # None
      logoWidth == Pt(88)
      logoDims == ScaleToWidth(logoImage[1], logoWidth)
      logoTop == top + Pt(6)
      logoPrims ==
        IF hasLogo
        THEN <<ImageBox("company", leftX + Pt(8),
                        A4_HEIGHT - logoTop - logoDims.height,
                        logoDims.width, logoDims.height)>>
        ELSE <<>>
      logoBottom == IF hasLogo THEN logoTop + logoDims.height + Pt(4) ELSE top
      textX == IF hasLogo THEN leftX + Pt(8) + logoWidth + Pt(8) ELSE leftX + Pt(8)
      textWidth == leftWidth - (textX - leftX) - Pt(8)
      safeTextWidth == Min(textWidth, Pt(205))
      nameY == top + Pt(6)
      blockLines == <<company.address,
                      Labelled(company.state) \o <<" ">> \o Labelled(company.stateCode),
                      Labelled(company.gstin),
                      Labelled(company.contact)>>
      block == CompanyLines(blockLines, 1, nameY + Pt(14), safeTextWidth, f)
  IN  Drawn(logoPrims
              \o <<TextRun("company", "name", <<>>, A4_HEIGHT - nameY, 11)>>
              \o block.prims,
            HeaderBottom(block.currentY, logoBottom))

\* The mutant draws a separator above every row, the first one included.
SeparatorAboveEveryRow(index) == index >= 0

\* rows.forEach of drawInvoiceMetaTable: if (index > 0).
SeparatorAboveRow(index) == index > 0

MetaRowLabels ==
  <<"Invoice No.", "Dated", "Mode/Terms of Payment", "Supplier's Ref.",
    "Other Reference", "Terms of Delivery">>

MetaRowFields ==
  <<"number", "issueDate", "paymentMode", "reference", "otherReference", "terms">>

\* The body of rows.forEach for the row of the given index (from 0).
MetaRow(index, x, y, tableWidth, rowHeight) ==
  LET rowY == y + index * rowHeight
      separatorX == x + (tableWidth * 45) \div 100
  IN  (IF SeparatorAboveRow(index)
       THEN <<LineSegment("meta", x, A4_HEIGHT - rowY,
                          x + tableWidth, A4_HEIGHT - rowY)>>
       ELSE <<>>)
      \o <<LineSegment("meta", separatorX, A4_HEIGHT - rowY,
                       separatorX, A4_HEIGHT - (rowY + rowHeight)),
           TextRun("meta", MetaRowLabels[index + 1], <<>>,
                   A4_HEIGHT - (rowY + Pt(8)), 9),
           TextRun("meta", MetaRowFields[index + 1], <<>>,
                   A4_HEIGHT - (rowY + Pt(8)), 9)>>

drawInvoiceMetaTable(invoice, top, f) ==
  LET tableWidth == getLayoutDimensions.rightWidth
      x == getLayoutDimensions.rightX
      y == top
      rowHeight == Pt(24)
      rowCount == Len(MetaRowLabels)
      tableHeight == rowCount * rowHeight
      tableTopY == A4_HEIGHT - (y + tableHeight)
  IN  Drawn(<<Rectangle("meta", x, tableTopY, tableWidth, tableHeight)>>
              \o Flatten([r \in 1..rowCount |->
                            MetaRow(r - 1, x, y, tableWidth, rowHeight)]),
            y + rowCount * rowHeight)

drawPartyBox(label, x, y, width, height, drawBorder) ==
  (IF drawBorder
   THEN <<Rectangle("parties", x, A4_HEIGHT - (y + height), width, height)>>
   ELSE <<>>)
  \o <<TextRun("parties", label, <<>>, A4_HEIGHT - (y + Pt(10)), 10),
       TextRun("parties", "name (contact)", <<>>, A4_HEIGHT - (y + Pt(26)), 9),
       TextRun("parties", "State Name, Code", <<>>, A4_HEIGHT - (y + Pt(40)), 9)>>

drawTermsBox(x, y, width, height, drawBorder) ==
  (IF drawBorder
   THEN <<Rectangle("parties", x, A4_HEIGHT - (y + height), width, height)>>
   ELSE <<>>)
  \o <<TextRun("parties", "Terms of Delivery", <<>>, A4_HEIGHT - (y + Pt(10)), 10),
       TextRun("parties", "terms", <<>>, A4_HEIGHT - (y + Pt(26)), 10)>>

drawPartyBlocks(invoice, top, f) ==
  LET rowHeight == Pt(82)
      rows == 2
      contentWidth == getContentWidth
      leftX == MARGIN
      totalHeight == rowHeight * rows
      termsWidth == META_TABLE_WIDTH
      consigneeWidth == contentWidth - termsWidth
      termsX == leftX + consigneeWidth
      buyerTop == top + rowHeight
  IN  Drawn(<<Rectangle("parties", leftX, A4_HEIGHT - (top + totalHeight),
                        contentWidth, totalHeight),
              LineSegment("parties", termsX, A4_HEIGHT - top,
                          termsX, A4_HEIGHT - (top + totalHeight)),
              LineSegment("parties", leftX, A4_HEIGHT - (top + rowHeight),
                          termsX, A4_HEIGHT - (top + rowHeight))>>
              \o drawPartyBox("Consignee", leftX, top, consigneeWidth, rowHeight, FALSE)
              \o drawTermsBox(termsX, top, termsWidth, rowHeight, FALSE)
              \o drawPartyBox("Buyer", leftX, buyerTop, contentWidth, rowHeight, FALSE),
            buyerTop + rowHeight)

\* columnWidths.reduce(...): the left edge of every column.
ColumnX(x, columnWidths) ==
  [idx \in 1..Len(columnWidths) |-> x + SumSeq(SubSeq(columnWidths, 1, idx - 1))]

\* The mutant starts the loop at the first column and draws a separator on
\* the table's left edge too.
SeparatorAtEveryColumn(columnWidths) == 1..Len(columnWidths)

\* for (let i = 1; i < columnWidths.length; i += 1): the columns (counted
\* from 1 here) that get a separator on their left edge.
SeparatorColumns(columnWidths) == 2..Len(columnWidths)

\* The vertical separators of a table, each across its whole height.
ColumnSeparators(sec, columnX, columnWidths, tableTop, tableHeight) ==
  LET cols == SeparatorColumns(columnWidths)
  IN  [k \in 1..Cardinality(cols) |->
         LET i == CHOOSE c \in cols : Cardinality({d \in cols : d < c}) = k - 1
         IN  LineSegment(sec, columnX[i], A4_HEIGHT - tableTop,
                         columnX[i], A4_HEIGHT - (tableTop + tableHeight))]

DefaultItem == [description |-> <<>>, quantity |-> 0, rate |-> 0]

\* const item = invoice.items[0] || {...}: the item the table shows.
FirstItem(invoice) ==
  IF Len(invoice.items) > 0 THEN invoice.items[1] ELSE DefaultItem

ItemsHeaders ==
  <<"Sl No.", "Description of Goods", "HSN/SAC", "Quantity", "Rate", "per", "Amount">>

drawItemsSection(invoice, t, startY, f) ==
  LET x == MARGIN
      width == getContentWidth
      headerTop == startY
      columnWidths == <<Pt(30), Pt(225), Pt(55), Pt(45), Pt(65), Pt(22), Pt(85)>>
      columnX == ColumnX(x, columnWidths)
      headerHeight == Pt(26)
      item == FirstItem(invoice)
      descMaxWidth == columnWidths[2] - Pt(8)
      descWrapped == wrapText(item.description, descMaxWidth, f.bold, 10)
      lineHeight == Pt(15)
      smallLines == <<[label |-> "Output Cgst UP", amount |-> t.cgstAmount],
                      [label |-> "Output Sgst UP", amount |-> t.sgstAmount],
                      [label |-> "Round Off", amount |-> t.roundOff]>>
      primaryBlockHeight == lineHeight + Pt(8)
      descBlockHeight == Len(descWrapped) * lineHeight
      smallBlockHeight == Len(smallLines) * lineHeight + Pt(8)
      detailRowHeight == primaryBlockHeight + descBlockHeight + smallBlockHeight + Pt(12)
      detailTop == headerTop + headerHeight
      totalRowHeight == Pt(20)
      totalRowTop == detailTop + detailRowHeight
      tableHeight == headerHeight + detailRowHeight + totalRowHeight
      primaryY == detailTop + Pt(8)
      descStartY == primaryY + lineHeight
      afterDescY == descStartY + Len(descWrapped) * lineHeight + Pt(6)
  IN  Drawn(
        [h \in 1..Len(ItemsHeaders) |->
           TextRun("items", ItemsHeaders[h], <<>>, A4_HEIGHT - (headerTop + Pt(10)), 9)]
        \o <<Rectangle("items", x, A4_HEIGHT - (headerTop + tableHeight),
                       width, tableHeight)>>
        \o ColumnSeparators("items", columnX, columnWidths, headerTop, tableHeight)
        \o <<LineSegment("items", x, A4_HEIGHT - (headerTop + headerHeight),
                         x + width, A4_HEIGHT - (headerTop + headerHeight)),
             LineSegment("items", x, A4_HEIGHT - (detailTop + detailRowHeight),
                         x + width, A4_HEIGHT - (detailTop + detailRowHeight))>>
        \o <<TextRun("items", "slNo", <<"1">>, A4_HEIGHT - primaryY, 9),
             TextRun("items", "hsn", <<>>, A4_HEIGHT - primaryY, 9),
             TextRun("items", "quantity", Decimal(item.quantity), A4_HEIGHT - primaryY, 9),
             TextRun("items", "rate", formatCurrency(Fine(item.rate)),
                     A4_HEIGHT - primaryY, 9),
             TextRun("items", "unit", <<>>, A4_HEIGHT - primaryY, 9)>>
        \o WrappedRuns("items", "description", descWrapped, descStartY, lineHeight, 10)
        \o Flatten([k \in 1..Len(smallLines) |->
             <<TextRun("items", smallLines[k].label, <<>>,
                       A4_HEIGHT - (afterDescY + (k - 1) * lineHeight), 9),
               TextRun("items", "smallAmount", formatCurrency(smallLines[k].amount),
                       A4_HEIGHT - (afterDescY + (k - 1) * lineHeight), 9)>>])
        \o <<TextRun("items", "Total", <<>>, A4_HEIGHT - (totalRowTop + Pt(8)), 9),
             TextRun("items", "grandTotal", formatCurrency(t.grandTotal),
                     A4_HEIGHT - (totalRowTop + Pt(8)), 10),
             TextRun("items", "E. & O.E", <<>>, A4_HEIGHT - (totalRowTop + Pt(16)), 8)>>,
        totalRowTop + totalRowHeight)

drawAmountSummaries(invoice, startY, f) ==
  LET x == MARGIN
      width == getContentWidth
      wordsLines == wrapText(invoice.amountInWords, width - Pt(210), f.normal, 9)
  IN  Drawn(<<TextRun("amount", "Amount Chargeable (in words):", <<>>,
                      A4_HEIGHT - startY, 10)>>
              \o WrappedRuns("amount", "amountInWords", wordsLines, startY, Pt(11), 9),
            startY + Max(Pt(14), Len(wordsLines) * Pt(11)))

TaxHeaders ==
  <<"HSN/SAC", "Taxable Value", "CGST Rate", "CGST Amount", "SGST/UTGST Rate",
    "SGST/UTGST Amount", "Total Tax Amount">>

\* `${(rate * 100).toFixed(0)}%` of a rate counted in hundredths; a missing
\* rate is undefined and prints as NaN.
PercentText(rate) ==
  IF rate = None THEN <<"N", "a", "N", "%">> ELSE Decimal(rate[1]) \o <<"%">>

drawTaxBreakup(invoice, t, startY, f) ==
  LET x == MARGIN
      tableTop == startY
      columnWidths == <<Pt(70), Pt(110), Pt(70), Pt(70), Pt(70), Pt(70), Pt(75)>>
      tableWidth == SumSeq(columnWidths)
      columnX == ColumnX(x, columnWidths)
      rowHeight == Pt(24)
      rowsCount == 3
      tableHeight == rowHeight * rowsCount
      dataRowTop == tableTop + rowHeight
      totalRowTop == dataRowTop + rowHeight
      taxWordsY == totalRowTop + rowHeight + Pt(12)
      taxableValueText == formatCurrency(t.baseAmount)
      cgstText == formatCurrency(t.cgstAmount)
      sgstText == formatCurrency(t.sgstAmount)
      totalTaxText == formatCurrency(t.taxTotal)
      taxWordsLines == wrapText(invoice.taxAmountInWords, getContentWidth - Pt(170),
                                f.normal, 9)
      \* Up to the first read of invoice.taxRates.cgst.
      beforeRates ==
        <<Rectangle("tax", x, A4_HEIGHT - (tableTop + tableHeight),
                    tableWidth, tableHeight)>>
        \o ColumnSeparators("tax", columnX, columnWidths, tableTop, tableHeight)
        \o <<LineSegment("tax", x, A4_HEIGHT - (tableTop + rowHeight),
                         x + tableWidth, A4_HEIGHT - (tableTop + rowHeight)),
             LineSegment("tax", x, A4_HEIGHT - (tableTop + rowHeight * 2),
                         x + tableWidth, A4_HEIGHT - (tableTop + rowHeight * 2))>>
        \o [h \in 1..Len(TaxHeaders) |->
              TextRun("tax", TaxHeaders[h], <<>>, A4_HEIGHT - (tableTop + Pt(10)), 9)]
        \o <<TextRun("tax", "hsn", <<>>, A4_HEIGHT - (dataRowTop + Pt(10)), 9),
             TextRun("tax", "taxableValue", taxableValueText,
                     A4_HEIGHT - (dataRowTop + Pt(10)), 9)>>
      rowOf(rowTop) ==
        <<TextRun("tax", "cgstRate", PercentText(invoice.taxRates[1].cgst),
                  A4_HEIGHT - (rowTop + Pt(10)), 9),
          TextRun("tax", "cgstAmount", cgstText, A4_HEIGHT - (rowTop + Pt(10)), 9),
          TextRun("tax", "sgstRate", PercentText(invoice.taxRates[1].sgst),
                  A4_HEIGHT - (rowTop + Pt(10)), 9),
          TextRun("tax", "sgstAmount", sgstText, A4_HEIGHT - (rowTop + Pt(10)), 9),
          TextRun("tax", "totalTax", totalTaxText, A4_HEIGHT - (rowTop + Pt(10)), 9)>>
  IN  IF invoice.taxRates = None
      THEN Thrown(beforeRates)
      ELSE Drawn(beforeRates
                   \o rowOf(dataRowTop)
                   \o <<TextRun("tax", "Total", <<>>,
                                A4_HEIGHT - (totalRowTop + Pt(10)), 9),
                        TextRun("tax", "taxableValue", taxableValueText,
                                A4_HEIGHT - (totalRowTop + Pt(10)), 9)>>
                   \o rowOf(totalRowTop)
                   \o <<TextRun("tax", "Tax Amount (in words):", <<>>,
                                A4_HEIGHT - taxWordsY, 10)>>
                   \o WrappedRuns("tax", "taxAmountInWords", taxWordsLines,
                                  taxWordsY, Pt(11), 9),
                 taxWordsY + Max(Pt(16), Len(taxWordsLines) * Pt(11)))

drawBankAndRemarks(invoice, bank, startY, f) ==
  LET x == MARGIN
      width == getContentWidth
      textAreaWidth == width \div 2 - Pt(10)
      remarksY == startY + Pt(14)
      remarksLines == wrapText(invoice.remarks, textAreaWidth, f.normal, 9)
      declarationLabelY == remarksY + Len(remarksLines) * Pt(12) + Pt(10)
      declarationY == declarationLabelY + Pt(14)
      declarationLines == wrapText(invoice.declaration, textAreaWidth, f.normal, 9)
      leftSectionBottom == declarationY + Len(declarationLines) * Pt(12)
      bankY == startY + Pt(14) + Pt(13) + Pt(13) + Pt(13)
      sectionBottom == Max(leftSectionBottom, bankY)
  IN  Drawn(<<TextRun("bank", "Remarks:", <<>>, A4_HEIGHT - startY, 10)>>
              \o WrappedRuns("bank", "remarks", remarksLines, remarksY, Pt(12), 9)
              \o <<TextRun("bank", "Declaration:", <<>>,
                           A4_HEIGHT - declarationLabelY, 10)>>
              \o WrappedRuns("bank", "declaration", declarationLines, declarationY,
                             Pt(12), 9)
              \o <<TextRun("bank", "Company's Bank Details", <<>>,
                           A4_HEIGHT - startY, 10),
                   TextRun("bank", "Bank Name", <<>>,
                           A4_HEIGHT - (startY + Pt(14)), 9),
                   TextRun("bank", "A/c No.", <<>>,
                           A4_HEIGHT - (startY + Pt(14) + Pt(13)), 9),
                   TextRun("bank", "Branch & IFSC Code", <<>>,
                           A4_HEIGHT - (startY + Pt(14) + Pt(13) + Pt(13)), 9)>>,
            sectionBottom + Pt(6))

drawStampAndFooter(contentBottom, f, stampImage) ==
  LET boxWidth == Pt(160)
      boxHeight == Pt(95)
      boxX == A4_WIDTH - MARGIN - boxWidth - Pt(8)
      boxY == MARGIN + Pt(18)
      stampWidth == Pt(65)
      stampDims == ScaleToWidth(stampImage[1], stampWidth)
      stampX == boxX + (boxWidth - stampDims.width) \div 2
      stampY == boxY + boxHeight - stampDims.height - Pt(10)
  IN  <<Rectangle("stamp", boxX, boxY, boxWidth, boxHeight)>>
      \o (IF stampImage # None
          THEN <<ImageBox("stamp", stampX, stampY, stampDims.width, stampDims.height)>>
          ELSE <<>>)
      \o <<TextRun("stamp", "Authorised Signatory", <<>>, boxY + Pt(8), 9),
           TextRun("stamp", "This is a Computer Generated Invoice", <<>>,
                   MARGIN - Pt(10), 9)>>

(***************************************************************************)
(* generateInvoicePDF: the page composer.  One action per statement; the   *)
(* cursor is threaded through the values the composers return.             *)
(***************************************************************************)
\* Helvetica and Helvetica-Bold: glyph advances in hundredths of a point per
\* unit of font size.
RenderFonts ==
  {[normal |-> [a |-> 500, W |-> 1500, sp |-> 300],
    bold |-> [a |-> 550, W |-> 1600, sp |-> 300]]}

Blank == <<>>

OneWord == <<"a">>

TwoWideWords == <<"W", " ", "W">>

ThreeWideWords == <<"W", " ", "W", " ", "W">>

TwoParagraphs == <<"a", "\n", "W">>

\* As many one-word paragraphs as the bound allows.
ManyParagraphs ==
  [i \in 1..(2 * MaxRemarkLines - 1) |-> IF i % 2 = 1 THEN "a" ELSE "\n"]

Companies ==
  [name : {OneWord}, address : {OneWord, TwoWideWords}, state : {OneWord},
   stateCode : {OneWord}, gstin : {OneWord}, contact : {OneWord}]

\* Quantity 1 at 3033.89, CGST and SGST 9 per cent, round-off 0.01: the
\* figures of createInvoiceData.
DocumentItems == [description : {Blank, TwoWideWords}, quantity : {1}, rate : {303389}]

DocumentTaxRates == {None, Some([cgst |-> Some(9), sgst |-> Some(9)])}

Invoices ==
  [items : SeqsUpTo(DocumentItems, MaxItems),
   taxRates : DocumentTaxRates,
   roundOff : {Some(1)},
   amountInWords : {Blank, ThreeWideWords},
   taxAmountInWords : {OneWord, ThreeWideWords},
   remarks : {OneWord, TwoParagraphs, ManyParagraphs},
   declaration : {OneWord, TwoWideWords}]

Banks == [name : {OneWord}]

\* An embedded image is its size in pixels; a missing one is null.
LogoImages ==
  {None, Some([width |-> 176, height |-> 100]), Some([width |-> 88, height |-> 120])}

StampImages == {None, Some([width |-> 130, height |-> 120])}

RenderInit ==
  /\ data \in [company : Companies, invoice : Invoices, bank : Banks]
  /\ fonts \in RenderFonts
  /\ images \in [logo : LogoImages, stamp : StampImages]
  /\ docTotals = None
  /\ page = <<>>
  /\ calls = <<>>
  /\ pc = "computeTotals"
  /\ WrapIdle
  /\ TotalsIdle
  /\ ServerIdle

\* The value the named composer returned.
BottomOf(name) == (CHOOSE c \in {calls[i] : i \in DOMAIN calls} : c.name = name).bottom

\* One statement `const bottom = composer(page, ..., top, ...)`.
Compose(name, top, result, nextPc) ==
  /\ page' = page \o result.prims
  /\ IF result.thrown
     THEN pc' = "threw" /\ calls' = calls
     ELSE /\ calls' = Append(calls, [name |-> name, top |-> top,
                                     bottom |-> result.bottom])
          /\ pc' = nextPc
  /\ UNCHANGED <<data, fonts, images, docTotals, wrapVars, totalsVars,
               serverVars>>

ComputeTotals ==
  /\ pc = "computeTotals"
  /\ docTotals' = Some(computeTotals(data.invoice))
  /\ pc' = "drawOuterBorder"
  /\ UNCHANGED <<data, fonts, images, page, calls, wrapVars, totalsVars,
               serverVars>>

DrawOuterBorder ==
  /\ pc = "drawOuterBorder"
  /\ page' = page \o drawOuterBorder
  /\ pc' = "drawTitle"
  /\ UNCHANGED <<data, fonts, images, docTotals, calls, wrapVars, totalsVars,
               serverVars>>

DrawTitle ==
  /\ pc = "drawTitle"
  /\ page' = page \o drawTitle
  /\ pc' = "drawCompanyHeader"
  /\ UNCHANGED <<data, fonts, images, docTotals, calls, wrapVars, totalsVars,
               serverVars>>

headerTop == MARGIN + Pt(8)

DrawCompanyHeader ==
  /\ pc = "drawCompanyHeader"
  /\ Compose("drawCompanyHeader", headerTop,
             drawCompanyHeader(data.company, headerTop, fonts, images.logo),
             "drawInvoiceMetaTable")

DrawInvoiceMetaTable ==
  /\ pc = "drawInvoiceMetaTable"
  /\ Compose("drawInvoiceMetaTable", headerTop,
             drawInvoiceMetaTable(data.invoice, headerTop, fonts),
             "drawPartyBlocks")

headerBottom == Max(BottomOf("drawCompanyHeader"), BottomOf("drawInvoiceMetaTable"))

DrawPartyBlocks ==
  /\ pc = "drawPartyBlocks"
  /\ Compose("drawPartyBlocks", headerBottom + Pt(10),
             drawPartyBlocks(data.invoice, headerBottom + Pt(10), fonts),
             "drawItemsSection")

DrawItemsSection ==
  /\ pc = "drawItemsSection"
  /\ Compose("drawItemsSection", BottomOf("drawPartyBlocks") + Pt(6),
             drawItemsSection(data.invoice, docTotals[1],
                              BottomOf("drawPartyBlocks") + Pt(6), fonts),
             "drawAmountSummaries")

DrawAmountSummaries ==
  /\ pc = "drawAmountSummaries"
  /\ Compose("drawAmountSummaries", BottomOf("drawItemsSection") + Pt(6),
             drawAmountSummaries(data.invoice, BottomOf("drawItemsSection") + Pt(6),
                                 fonts),
             "drawTaxBreakup")

DrawTaxBreakup ==
  /\ pc = "drawTaxBreakup"
  /\ Compose("drawTaxBreakup", BottomOf("drawAmountSummaries") + Pt(8),
             drawTaxBreakup(data.invoice, docTotals[1],
                            BottomOf("drawAmountSummaries") + Pt(8), fonts),
             "drawBankAndRemarks")

DrawBankAndRemarks ==
  /\ pc = "drawBankAndRemarks"
  /\ Compose("drawBankAndRemarks", BottomOf("drawTaxBreakup") + Pt(10),
             drawBankAndRemarks(data.invoice, data.bank,
                                BottomOf("drawTaxBreakup") + Pt(10), fonts),
             "drawStampAndFooter")

DrawStampAndFooter ==
  /\ pc = "drawStampAndFooter"
  /\ page' = page \o drawStampAndFooter(BottomOf("drawBankAndRemarks"), fonts,
                                        images.stamp)
  /\ pc' = "done"
  /\ UNCHANGED <<data, fonts, images, docTotals, calls, wrapVars, totalsVars,
               serverVars>>

Next ==
  \/ ComputeTotals
  \/ DrawOuterBorder
  \/ DrawTitle
  \/ DrawCompanyHeader
  \/ DrawInvoiceMetaTable
  \/ DrawPartyBlocks
  \/ DrawItemsSection
  \/ DrawAmountSummaries
  \/ DrawTaxBreakup
  \/ DrawBankAndRemarks
  \/ DrawStampAndFooter

Spec == RenderInit /\ [][Next]_vars

(***************************************************************************)
(* The service: GET /invoice and the error middleware.  A request is       *)
(* suspended at every await; here another request may take a step between  *)
(* any two statements of the handler, which allows every interleaving at   *)
(* the awaits and more.  What lies outside the program (the file system,   *)
(* pdf-lib) succeeds or fails as it pleases.                               *)
(***************************************************************************)
\* The invoice every request renders: one item, quantity 1 at 3033.89, CGST
\* and SGST 9 per cent, round-off 0.01; an address and a declaration too
\* long for one line, remarks of two paragraphs.
createInvoiceData ==
  [company |-> [name |-> OneWord, address |-> TwoWideWords, state |-> OneWord,
                stateCode |-> OneWord, gstin |-> OneWord, contact |-> OneWord],
   invoice |-> [items |-> <<[description |-> OneWord, quantity |-> 1,
                             rate |-> 303389]>>,
                taxRates |-> Some([cgst |-> Some(9), sgst |-> Some(9)]),
                roundOff |-> Some(1),
                amountInWords |-> OneWord,
                taxAmountInWords |-> OneWord,
                remarks |-> TwoParagraphs,
                declaration |-> TwoWideWords],
   bank |-> [name |-> OneWord]]

\* The one element of a set: a statement's value, computed once and named.
The(S) == CHOOSE v \in S : TRUE

\* generateInvoicePDF as one call: what each of its statements draws, in
\* order, up to and including the statement that raises, if one does.
generateInvoicePDF(d, f, im) ==
  The({The({The({The({The({
    LET upToTax == <<drawOuterBorder, drawTitle, company.prims, meta.prims,
                     parties.prims, items.prims, amount.prims, tax.prims>>
    IN  IF tax.thrown
        THEN [steps |-> upToTax, thrown |-> TRUE]
        ELSE The({[steps |-> upToTax \o <<bank.prims,
                                           drawStampAndFooter(bank.bottom, f, im.stamp)>>,
                   thrown |-> FALSE] :
               bank \in {drawBankAndRemarks(d.invoice, d.bank,
                                            tax.bottom + Pt(10), f)}}) :
    tax \in {drawTaxBreakup(d.invoice, t, amount.bottom + Pt(8), f)}}) :
    amount \in {drawAmountSummaries(d.invoice, items.bottom + Pt(6), f)}}) :
    items \in {drawItemsSection(d.invoice, t, parties.bottom + Pt(6), f)}}) :
    parties \in {drawPartyBlocks(d.invoice,
                                 Max(company.bottom, meta.bottom) + Pt(10), f)}}) :
    t \in {computeTotals(d.invoice)},
    company \in {drawCompanyHeader(d.company, headerTop, f, im.logo)},
    meta \in {drawInvoiceMetaTable(d.invoice, headerTop, f)}})

\* A fresh Express response: nothing set, nothing sent.
FreshResponse == [statusCode |-> 200, headers |-> {}, body |-> None, sent |-> 0]

\* res.setHeader(name, value).
setHeader(res, name, value) ==
  [res EXCEPT !.headers = {h \in @ : h[1] # name} \cup {<<name, value>>}]

\* res.send(buffer).
send(res, buffer) == [res EXCEPT !.body = Some(buffer), !.sent = @ + 1]

\* res.status(code).
status(res, code) == [res EXCEPT !.statusCode = code]

\* res.json(obj).
json(res, obj) ==
  send(setHeader(res, "Content-Type", "application/json"), obj)

\* The mutant hands the caller the message of the error.
ErrorBodyWithDetail(err) == [message |-> err.message]

\* The body of the error middleware's answer.
ErrorBody(err) == [message |-> "Internal server error"]

\* app.use((err, _req, res, _next) => ...).
errorMiddleware(err, res) == json(status(res, 500), ErrorBody(err))

\* An error raised outside the program, by the step named.
Failure(step) == [step |-> step, message |-> "detail of the failure"]

\* resolveAssetPath: the first candidate that exists, or null.
RECURSIVE resolveAssetPath(_, _)
resolveAssetPath(candidates, existing) ==
  IF candidates = <<>> THEN None
  ELSE IF Head(candidates) \in existing THEN Some(Head(candidates))
  ELSE resolveAssetPath(Tail(candidates), existing)

\* path.endsWith('.png').
EndsWithPng(path) == path \in {"logo.png", "stamp.png"}

\* What a file of the images directory may hold when it is read: an image
\* of some size, or bytes that are no image.
LogoFiles ==
  {[valid |-> TRUE, width |-> 176, height |-> 100],
   [valid |-> FALSE, width |-> 0, height |-> 0]}

StampFiles ==
  {[valid |-> TRUE, width |-> 130, height |-> 120],
   [valid |-> FALSE, width |-> 0, height |-> 0]}

\* The statements of generateInvoicePDF at whose first instruction pdf-lib
\* may fail: the second (nothing but the border drawn) and the eighth.
FailurePoints == {2, 8}

\* The metrics of the two standard fonts.
StandardFonts == CHOOSE f \in RenderFonts : TRUE

\* A document as PDFDocument.create() returns it.
EmptyDocument == [pages |-> <<>>, embedded |-> <<>>]

\* The mutant hands every request the first document.
SharedDocument(ds) == 1

\* PDFDocument.create(): the document it returns is a new one.
NewDocument(ds) == Len(ds) + 1

Created(ds, id) == IF id > Len(ds) THEN Append(ds, EmptyDocument) ELSE ds

\* pdfDoc.addPage(...): the page is the last of its document.
addPage(ds, id) == [ds EXCEPT ![id].pages = Append(@, <<>>)]

\* pdfDoc.embedFont, embedPng, embedJpg.
embed(ds, id, what) == [ds EXCEPT ![id].embedded = Append(@, what)]

\* The page.draw... calls of one render.
drawOn(ds, pageRef, prims) ==
  [ds EXCEPT ![pageRef.doc].pages[pageRef.index] = @ \o prims]

\* pdfDoc.save(): the bytes hold the document as it is.
save(ds, id) == [pdf |-> ds[id]]

\* The mutant lets an image's error leave the handler's inner try.
ImageErrorRethrown(next) == "catch"

\* catch (err) { console.warn(...) }: the handler goes on with what follows.
ImageErrorCaught(next) == next

\* The locals of a handler that has just been entered.
NewHandler ==
  [pc |-> "create", pdfDoc |-> None, page |-> None,
   helveticaFont |-> None, helveticaBoldFont |-> None,
   imageBytes |-> None, logoImage |-> None, stampImage |-> None,
   logoErr |-> None, stampErr |-> None, error |-> None,
   res |-> FreshResponse]

Requests == 1..MaxRequests

AssetFiles == {"logo.png", "logo.jpg", "stamp.png"}

ServerInit ==
  /\ \E existing \in SUBSET AssetFiles :
       /\ LOGO_PATH = resolveAssetPath(<<"logo.png", "logo.jpg", "logo.jpeg">>,
                                       existing)
       /\ STAMP_PATH = resolveAssetPath(<<"stamp.png", "stamp.jpg", "stamp.jpeg">>,
                                        existing)
  /\ handlers = [r \in Requests |-> NewHandler]
  /\ docs = <<>>
  /\ console = <<>>
  /\ WrapIdle
  /\ TotalsIdle
  /\ RenderIdle

\* The handler of request r moves to h; the rest of the process stays.
Becomes(r, h) ==
  /\ handlers' = [handlers EXCEPT ![r] = h]
  /\ UNCHANGED <<LOGO_PATH, STAMP_PATH, wrapVars, totalsVars, renderVars>>

\* An awaited call rejects: control passes to the handler's catch.
Rejects(r, step) ==
  Becomes(r, [handlers[r] EXCEPT !.pc = "catch", !.error = Some(Failure(step))])

\* const pdfDoc = await PDFDocument.create(); const page = pdfDoc.addPage(...).
CreateDocument(r) ==
  /\ handlers[r].pc = "create"
  /\ \/ LET id == NewDocument(docs)
             created == Created(docs, id)
         IN  /\ docs' = addPage(created, id)
             /\ Becomes(r, [handlers[r] EXCEPT
                              !.pc = "embedFont",
                              !.pdfDoc = Some(id),
                              !.page = Some([doc |-> id,
                                             index |-> Len(created[id].pages) + 1])])
     \/ Rejects(r, "PDFDocument.create") /\ UNCHANGED docs
  /\ UNCHANGED console

\* const helveticaFont = await pdfDoc.embedFont(StandardFonts.Helvetica).
EmbedFont(r) ==
  /\ handlers[r].pc = "embedFont"
  /\ \/ /\ docs' = embed(docs, handlers[r].pdfDoc[1], "Helvetica")
        /\ Becomes(r, [handlers[r] EXCEPT
                         !.pc = "embedFontBold",
                         !.helveticaFont = Some(StandardFonts.normal)])
     \/ Rejects(r, "embedFont") /\ UNCHANGED docs
  /\ UNCHANGED console

\* const helveticaBoldFont = await pdfDoc.embedFont(StandardFonts.HelveticaBold).
EmbedFontBold(r) ==
  /\ handlers[r].pc = "embedFontBold"
  /\ \/ /\ docs' = embed(docs, handlers[r].pdfDoc[1], "Helvetica-Bold")
        /\ Becomes(r, [handlers[r] EXCEPT
                         !.pc = "readLogo",
                         !.helveticaBoldFont = Some(StandardFonts.bold)])
     \/ Rejects(r, "embedFont") /\ UNCHANGED docs
  /\ UNCHANGED console

\* if (LOGO_PATH) { try { const imageBytes = fs.readFileSync(LOGO_PATH); ...
ReadLogo(r) ==
  /\ handlers[r].pc = "readLogo"
  /\ IF LOGO_PATH = None
     THEN Becomes(r, [handlers[r] EXCEPT !.pc = "readStamp"]) /\ UNCHANGED console
     ELSE \/ \E bytes \in LogoFiles :
               /\ Becomes(r, [handlers[r] EXCEPT !.pc = "embedLogo",
                                                 !.imageBytes = Some(bytes)])
               /\ UNCHANGED console
          \/ /\ console' = Append(console, [level |-> "warn",
                                             text |-> "Could not embed logo:"])
             /\ Becomes(r, [handlers[r] EXCEPT
                              !.pc = ImageErrorCaught("readStamp"),
                              !.logoErr = Some(Failure("readFileSync"))])
  /\ UNCHANGED docs

\* logoImage = await pdfDoc.embedPng(imageBytes), or embedJpg.
EmbedLogo(r) ==
  /\ handlers[r].pc = "embedLogo"
  /\ LET bytes == handlers[r].imageBytes[1]
         embedder == IF EndsWithPng(LOGO_PATH[1]) THEN "embedPng" ELSE "embedJpg"
     IN  IF bytes.valid
         THEN /\ docs' = embed(docs, handlers[r].pdfDoc[1], embedder)
              /\ Becomes(r, [handlers[r] EXCEPT
                               !.pc = "readStamp",
                               !.imageBytes = None,
                               !.logoImage = Some([width |-> bytes.width,
                                                   height |-> bytes.height])])
              /\ UNCHANGED console
         ELSE /\ console' = Append(console, [level |-> "warn",
                                             text |-> "Could not embed logo:"])
              /\ Becomes(r, [handlers[r] EXCEPT
                               !.pc = ImageErrorCaught("readStamp"),
                               !.imageBytes = None,
                               !.logoErr = Some(Failure(embedder))])
              /\ UNCHANGED docs

\* if (STAMP_PATH) { try { const imageBytes = fs.readFileSync(STAMP_PATH); ...
ReadStamp(r) ==
  /\ handlers[r].pc = "readStamp"
  /\ IF STAMP_PATH = None
     THEN Becomes(r, [handlers[r] EXCEPT !.pc = "generate"]) /\ UNCHANGED console
     ELSE \/ \E bytes \in StampFiles :
               /\ Becomes(r, [handlers[r] EXCEPT !.pc = "embedStamp",
                                                 !.imageBytes = Some(bytes)])
               /\ UNCHANGED console
          \/ /\ console' = Append(console, [level |-> "warn",
                                             text |-> "Could not embed stamp:"])
             /\ Becomes(r, [handlers[r] EXCEPT
                              !.pc = ImageErrorCaught("generate"),
                              !.stampErr = Some(Failure("readFileSync"))])
  /\ UNCHANGED docs

\* stampImage = await pdfDoc.embedPng(imageBytes), or embedJpg.
EmbedStamp(r) ==
  /\ handlers[r].pc = "embedStamp"
  /\ LET bytes == handlers[r].imageBytes[1]
         embedder == IF EndsWithPng(STAMP_PATH[1]) THEN "embedPng" ELSE "embedJpg"
     IN  IF bytes.valid
         THEN /\ docs' = embed(docs, handlers[r].pdfDoc[1], embedder)
              /\ Becomes(r, [handlers[r] EXCEPT
                               !.pc = "generate",
                               !.imageBytes = None,
                               !.stampImage = Some([width |-> bytes.width,
                                                    height |-> bytes.height])])
              /\ UNCHANGED console
         ELSE /\ console' = Append(console, [level |-> "warn",
                                             text |-> "Could not embed stamp:"])
              /\ Becomes(r, [handlers[r] EXCEPT
                               !.pc = ImageErrorCaught("generate"),
                               !.imageBytes = None,
                               !.stampErr = Some(Failure(embedder))])
              /\ UNCHANGED docs

\* const fonts = ..., images = ...; await generateInvoicePDF(page, pdfDoc,
\* data, fonts, images) with data = createInvoiceData().
Generate(r) ==
  /\ handlers[r].pc = "generate"
  /\ LET h == handlers[r]
         f == [normal |-> h.helveticaFont[1], bold |-> h.helveticaBoldFont[1]]
         im == [logo |-> h.logoImage, stamp |-> h.stampImage]
         run == generateInvoicePDF(createInvoiceData, f, im)
     IN  \/ /\ docs' = drawOn(docs, h.page[1], Flatten(run.steps))
            /\ IF run.thrown
               THEN Rejects(r, "generateInvoicePDF")
               ELSE Becomes(r, [h EXCEPT !.pc = "save"])
         \/ \E k \in FailurePoints :
              /\ k <= Len(run.steps)
              /\ docs' = drawOn(docs, h.page[1],
                                Flatten(SubSeq(run.steps, 1, k - 1)))
              /\ Rejects(r, "generateInvoicePDF")
  /\ UNCHANGED console

\* const pdfBytes = await pdfDoc.save(); res.setHeader(...) twice;
\* res.send(Buffer.from(pdfBytes)).
SaveAndSend(r) ==
  /\ handlers[r].pc = "save"
  /\ \/ LET pdfBytes == save(docs, handlers[r].pdfDoc[1])
             withType == setHeader(handlers[r].res, "Content-Type", "application/pdf")
             withName == setHeader(withType, "Content-Disposition",
                                   "attachment; filename=\"invoice.pdf\"")
         IN  Becomes(r, [handlers[r] EXCEPT !.pc = "done",
                                            !.res = send(withName, pdfBytes)])
     \/ Rejects(r, "save")
  /\ UNCHANGED <<docs, console>>

\* catch (error) { next(error); } and the error middleware it reaches.
Catch(r) ==
  /\ handlers[r].pc = "catch"
  /\ console' = Append(console, [level |-> "error", text |-> "Unhandled error:"])
  /\ Becomes(r, [handlers[r] EXCEPT
                   !.pc = "done",
                   !.res = errorMiddleware(handlers[r].error[1], handlers[r].res)])
  /\ UNCHANGED docs

ServerNext ==
  \E r \in Requests :
    \/ CreateDocument(r)
    \/ EmbedFont(r)
    \/ EmbedFontBold(r)
    \/ ReadLogo(r)
    \/ EmbedLogo(r)
    \/ ReadStamp(r)
    \/ EmbedStamp(r)
    \/ Generate(r)
    \/ SaveAndSend(r)
    \/ Catch(r)

SpecServer == ServerInit /\ [][ServerNext]_vars

(***************************************************************************)
(* Claims about the text wrapper, checked under SpecWrap.                  *)
(***************************************************************************)
Returned == wpc = "returned"

LineWidth(line) == widthOfTextAtSize(font, line, fontSize)

\* The words of the input: the pieces between spaces of the pieces between
\* line breaks.
InputWords(t) ==
  UNION {{Split(Split(t, "\n")[p], " ")[w] :
            w \in DOMAIN Split(Split(t, "\n")[p], " ")} :
         p \in DOMAIN Split(t, "\n")}

HasSpace(line) == \E i \in DOMAIN line : line[i] = " "

\* C1: every line wrapText returns either measures at most maxWidth or is
\* exactly one word of the input, unsplit and alone on its line.
C1_WidthBoundOrSingleWord ==
  Returned =>
    \A i \in DOMAIN lines :
      LineWidth(lines[i]) <= maxWidth \/ lines[i] \in InputWords(text)

\* C1 witness: a word wider than the budget stands alone on one line while
\* another line of the same result holds several words within the budget.
C1_Witness ==
  /\ Returned
  /\ \E i \in DOMAIN lines :
       /\ LineWidth(lines[i]) > maxWidth
       /\ lines[i] \in InputWords(text)
       /\ ~HasSpace(lines[i])
  /\ \E j \in DOMAIN lines :
       /\ LineWidth(lines[j]) <= maxWidth
       /\ HasSpace(Trim(lines[j]))

HasLineBreak(t) == \E i \in DOMAIN t : t[i] = "\n"

NonBlankParagraphs(t) ==
  {p \in DOMAIN Split(t, "\n") : Truthy(Trim(Split(t, "\n")[p]))}

\* C2 as stated: a text with an explicit line break yields at least two
\* lines, whatever the width.
C2_LineBreakGivesTwoLines ==
  (Returned /\ HasLineBreak(text)) => Len(lines) >= 2

\* C2 as amended: a text in which at least two of the paragraphs separated by
\* line breaks hold a non-blank character yields at least two lines,
\* whatever the width.
C2_TwoNonBlankParagraphsGiveTwoLines ==
  (Returned /\ Cardinality(NonBlankParagraphs(text)) >= 2) => Len(lines) >= 2

\* C2 witness: two non-blank paragraphs that would fit the budget on one
\* line are returned as two lines.
C2_Witness ==
  /\ Returned
  /\ Cardinality(NonBlankParagraphs(text)) = 2
  /\ Len(text) = 3
  /\ (SumAdvance(font, text) + font.sp) * fontSize <= maxWidth
  /\ Len(lines) = 2

AllBlank(t) == \A i \in DOMAIN t : IsWhiteSpace(t[i])

\* C10: wrapText never returns an empty sequence; no empty line is returned
\* for an empty paragraph; and an input that yields no line at all (nothing
\* but spaces and line breaks) returns exactly one empty line.
C10_NeverEmptyResult ==
  Returned =>
    /\ Len(lines) >= 1
    /\ AllBlank(text) => lines = << <<>> >>
    /\ ~AllBlank(text) =>
         /\ \A i \in DOMAIN lines : Truthy(lines[i])
         /\ Len(lines) >= Cardinality(NonBlankParagraphs(text))

\* C10 witness: an input made of empty paragraphs only returns the single
\* empty line.
C10_Witness ==
  /\ Returned
  /\ HasLineBreak(text)
  /\ AllBlank(text)
  /\ lines = << <<>> >>

\* lines.join(sep).
RECURSIVE Join(_, _)
Join(ls, sep) ==
  IF ls = <<>> THEN <<>>
  ELSE IF Len(ls) = 1 THEN ls[1]
  ELSE ls[1] \o <<sep>> \o Join(Tail(ls), sep)

\* C13: wrapping is idempotent: the lines wrapText returns, joined with line
\* breaks and wrapped again at the same width, come back as the same
\* sequence of lines.
C13_WrapIdempotent ==
  Returned => wrapText(Join(lines, "\n"), maxWidth, font, fontSize) = lines

\* C13 witness: a one-paragraph text that was broken into several lines, one
\* of them holding two words, comes back unchanged from the second wrap.
C13_Witness ==
  /\ Returned
  /\ ~HasLineBreak(text)
  /\ Len(lines) >= 2
  /\ \E i \in DOMAIN lines : HasSpace(Trim(lines[i]))
  /\ Join(lines, "\n") # text
  /\ wrapText(Join(lines, "\n"), maxWidth, font, fontSize) = lines

(***************************************************************************)
(* Claims about the totals calculator, checked under SpecTotals.           *)
(***************************************************************************)
Totalled == tpc = "returned"

RECURSIVE SumOfProducts(_)
SumOfProducts(items) ==
  IF items = <<>> THEN 0
  ELSE Head(items).quantity * Head(items).rate + SumOfProducts(Tail(items))

Abs(n) == IF n < 0 THEN -n ELSE n

C5_MissingTaxRatesAreZero ==
  (tpc # "idle" /\ tInvoice.taxRates = None) =>
    /\ tpc = "ready" => ENABLED TotalsCall
    /\ Totalled =>
         LET t == totals[1]
         IN  /\ t.cgstAmount = 0
             /\ t.sgstAmount = 0
             /\ t.taxTotal = 0
             /\ t.grandTotal = t.baseAmount + Fine(OrZero(tInvoice.roundOff))

\* C5 witness: an invoice without taxRates, with a positive base amount and
\* round-off, has been totalled.
C5_Witness ==
  /\ Totalled
  /\ tInvoice.taxRates = None
  /\ totals[1].baseAmount > 0
  /\ totals[1].roundOff > 0

(***************************************************************************)
(* Claims about the page composer and its sections, checked under Spec.    *)
(***************************************************************************)
\* The chained composer of that name has returned.
Composed(name) == \E i \in DOMAIN calls : calls[i].name = name

\* drawTaxBreakup has drawn its table: it returned, or it raised after the
\* table's frame and separators.
TaxTableDrawn == Composed("drawTaxBreakup") \/ pc = "threw"

\* The places on the page of one composer's instructions of one kind.
PrimsOf(sec, kind) == {i \in DOMAIN page : page[i].sec = sec /\ page[i].kind = kind}

TextsOf(sec, what) == {i \in PrimsOf(sec, "text") : page[i].what = what}

\* The single line item and the rates of the scenario (they are those of
\* createInvoiceData).
ScenarioInvoice ==
  /\ Len(data.invoice.items) = 1
  /\ data.invoice.items[1].quantity = 1
  /\ data.invoice.items[1].rate = 303389
  /\ data.invoice.taxRates = Some([cgst |-> Some(9), sgst |-> Some(9)])
  /\ data.invoice.roundOff = Some(1)

\* C4 as stated: the scenario yields baseAmount 3033.89, cgstAmount and
\* sgstAmount 272.8501, taxTotal 545.7002, grandTotal 3580.4403, and the
\* grand-total cell reads 'Rs 3580.44'.
C4_ScenarioAsStated ==
  (ScenarioInvoice /\ Composed("drawItemsSection")) =>
    /\ docTotals[1].baseAmount = 30338900
    /\ docTotals[1].cgstAmount = 2728501
    /\ docTotals[1].sgstAmount = 2728501
    /\ docTotals[1].taxTotal = 5457002
    /\ docTotals[1].grandTotal = 35804403
    /\ \A i \in TextsOf("items", "grandTotal") :
         page[i].chars = <<"R", "s", " ", "3", "5", "8", "0", ".", "4", "4">>

\* C4 as amended: the scenario yields baseAmount 3033.89, cgstAmount and
\* sgstAmount 273.0501, taxTotal 546.1002, grandTotal 3580.0002, and the
\* one grand-total cell reads 'Rs 3580.00'.
C4_ScenarioTotals ==
  (ScenarioInvoice /\ pc # "computeTotals") =>
    /\ docTotals[1].baseAmount = 30338900
    /\ docTotals[1].cgstAmount = 2730501
    /\ docTotals[1].sgstAmount = 2730501
    /\ docTotals[1].taxTotal = 5461002
    /\ docTotals[1].grandTotal = 35800002
    /\ Composed("drawItemsSection") =>
         /\ Cardinality(TextsOf("items", "grandTotal")) = 1
         /\ \A i \in TextsOf("items", "grandTotal") :
              page[i].chars = <<"R", "s", " ", "3", "5", "8", "0", ".", "0", "0">>

\* C4 witness: the scenario's invoice has been totalled and its items table,
\* with the grand-total cell, has been drawn.
C4_Witness ==
  /\ ScenarioInvoice
  /\ Composed("drawItemsSection")
  /\ TextsOf("items", "grandTotal") # {}

\* C6: every chained composer returns a cursor strictly greater than the
\* one it received, and along the chain the cursor strictly increases: every
\* composer after the two header composers starts below what every
\* composer before it returned.
C6_CursorStrictlyIncreases ==
  /\ \A i \in DOMAIN calls : calls[i].bottom > calls[i].top
  /\ \A i \in DOMAIN calls : \A j \in 1..(i - 1) :
       i > 2 => calls[i].top > calls[j].bottom

\* C6 witness: all seven chained composers have returned, for a header with
\* a logo shorter than its text and a blank amount in words.
C6_Witness ==
  /\ pc = "done"
  /\ Len(calls) = 7
  /\ images.logo = Some([width |-> 176, height |-> 100])
  /\ data.invoice.amountInWords = Blank

TableRows(sec) ==
  CASE sec = "meta" -> 6
    [] sec = "items" -> 3
    [] sec = "tax" -> 3

TableComposer(sec) ==
  CASE sec = "meta" -> "drawInvoiceMetaTable"
    [] sec = "items" -> "drawItemsSection"
    [] sec = "tax" -> "drawTaxBreakup"

TableDrawn(sec) ==
  IF sec = "tax" THEN TaxTableDrawn ELSE Composed(TableComposer(sec))

HorizontalLines(sec) == {i \in PrimsOf(sec, "line") : page[i].y1 = page[i].y2}

VerticalLines(sec) == {i \in PrimsOf(sec, "line") : page[i].x1 = page[i].x2}

\* C7: the metadata table (6 rows), the items table (3 rows) and the tax
\* breakup table (3 rows) each emit exactly one outer rectangle and exactly
\* rows - 1 horizontal separators, at different heights, all strictly
\* between the rectangle's bottom and top edges.
C7_OneFrameAndInnerRowSeparators ==
  \A sec \in {"meta", "items", "tax"} :
    TableDrawn(sec) =>
      /\ Cardinality(PrimsOf(sec, "rect")) = 1
      /\ Cardinality(HorizontalLines(sec)) = TableRows(sec) - 1
      /\ \A i \in HorizontalLines(sec) : \A r \in PrimsOf(sec, "rect") :
           /\ page[i].y1 > page[r].y
           /\ page[i].y1 < page[r].y + page[r].height
      /\ \A i, j \in HorizontalLines(sec) : i # j => page[i].y1 # page[j].y1

\* C7 witness: the three tables are on the page.
C7_Witness ==
  /\ Composed("drawTaxBreakup")
  /\ \A sec \in {"meta", "items", "tax"} :
       PrimsOf(sec, "rect") # {} /\ HorizontalLines(sec) # {}

TableColumns(sec) ==
  CASE sec = "meta" -> 2
    [] sec = "items" -> 7
    [] sec = "tax" -> 7

\* The line runs from the top edge to the bottom edge of the rectangle.
SpansHeight(l, r) ==
  /\ Max(l.y1, l.y2) = r.y + r.height
  /\ Min(l.y1, l.y2) = r.y

\* C8 as stated: each of the three tables emits exactly columns - 1 vertical
\* separator lines (1, 6 and 6), each across the table's full height.
C8_ColumnSeparatorsAsStated ==
  \A sec \in {"meta", "items", "tax"} :
    TableDrawn(sec) =>
      /\ Cardinality(VerticalLines(sec)) = TableColumns(sec) - 1
      /\ \A i \in VerticalLines(sec) : \A r \in PrimsOf(sec, "rect") :
           SpansHeight(page[i], page[r])

\* C8 as amended: the items table and the tax breakup table each emit
\* exactly 6 vertical separator lines, at different places strictly inside
\* the table, each across its full height; the metadata table draws its one
\* vertical separator as 6 lines, one per row and one row high, all at the
\* same place strictly inside the table, which together cover the table's
\* height once, without overlap.
C8_ColumnSeparators ==
  /\ \A sec \in {"items", "tax"} :
       TableDrawn(sec) =>
         /\ Cardinality(VerticalLines(sec)) = TableColumns(sec) - 1
         /\ \A i \in VerticalLines(sec) : \A r \in PrimsOf(sec, "rect") :
              /\ SpansHeight(page[i], page[r])
              /\ page[i].x1 > page[r].x
              /\ page[i].x1 < page[r].x + page[r].width
         /\ \A i, j \in VerticalLines(sec) : i # j => page[i].x1 # page[j].x1
  /\ Composed("drawInvoiceMetaTable") =>
       /\ Cardinality(VerticalLines("meta")) = TableRows("meta")
       /\ \A i, j \in VerticalLines("meta") : page[i].x1 = page[j].x1
       /\ \A i \in VerticalLines("meta") : \A r \in PrimsOf("meta", "rect") :
            /\ page[i].x1 > page[r].x
            /\ page[i].x1 < page[r].x + page[r].width
            /\ page[i].y1 - page[i].y2 = Pt(24)
            /\ page[i].y1 <= page[r].y + page[r].height
            /\ page[i].y2 >= page[r].y
       /\ \A i, j \in VerticalLines("meta") : i # j => page[i].y1 # page[j].y1
       /\ \A i, j \in VerticalLines("meta") :
            i # j => (page[i].y2 >= page[j].y1 \/ page[j].y2 >= page[i].y1)

\* C8 witness: the three tables and their vertical separators are on the
\* page.
C8_Witness ==
  /\ Composed("drawTaxBreakup")
  /\ \A sec \in {"meta", "items", "tax"} : VerticalLines(sec) # {}

\* The detail blocks of the items table: one serial number each.
DetailBlocks == TextsOf("items", "slNo")

\* C9: for an invoice with n >= 1 line items the items table shows n detail
\* blocks, one per item that enters baseAmount and grandTotal.
C9_OneDetailBlockPerItem ==
  (Composed("drawItemsSection") /\ Len(data.invoice.items) >= 1) =>
    /\ docTotals[1].baseAmount = Fine(SumOfProducts(data.invoice.items))
    /\ Cardinality(DetailBlocks) = Len(data.invoice.items)

SetMin(S) == CHOOSE m \in S : \A n \in S : m <= n

\* Where the text block of the company header ends, read off the page: one
\* line step and one paragraph step below its lowest baseline.
CompanyTextBottom ==
  A4_HEIGHT - SetMin({page[i].y : i \in TextsOf("company", "line")}) + Pt(12) + Pt(2)

\* Where the logo ends, read off the page: its lower edge and the padding of
\* four points below it.
CompanyLogoBottom ==
  A4_HEIGHT - SetMin({page[i].y : i \in PrimsOf("company", "image")}) + Pt(4)

Images == {i \in DOMAIN page : page[i].kind = "image"}

\* C14: without a logo and a stamp the render goes on to its end (nothing is
\* raised for an invoice that has its tax rates), no image is drawn, and
\* drawCompanyHeader returns the bottom of its text block alone; with a logo
\* it returns the larger of the logo's bottom and the text's bottom.
C14_RenderWithoutImages ==
  /\ (images.logo = None /\ images.stamp = None) =>
       /\ Images = {}
       /\ data.invoice.taxRates # None => pc # "threw"
  /\ Composed("drawCompanyHeader") =>
       /\ images.logo = None =>
            /\ PrimsOf("company", "image") = {}
            /\ BottomOf("drawCompanyHeader") = CompanyTextBottom
       /\ images.logo # None =>
            /\ Cardinality(PrimsOf("company", "image")) = 1
            /\ BottomOf("drawCompanyHeader") = Max(CompanyLogoBottom, CompanyTextBottom)

\* C14 witness: a render without logo and stamp has run to its end, the
\* signature box and the footer drawn, with no image on the page.
C14_Witness ==
  /\ pc = "done"
  /\ images.logo = None
  /\ images.stamp = None
  /\ Images = {}
  /\ PrimsOf("stamp", "rect") # {}
  /\ BottomOf("drawCompanyHeader") = CompanyTextBottom

\* The section name under which a chained composer's instructions are
\* recorded.
SectionOf(name) ==
  CASE name = "drawCompanyHeader" -> "company"
    [] name = "drawInvoiceMetaTable" -> "meta"
    [] name = "drawPartyBlocks" -> "parties"
    [] name = "drawItemsSection" -> "items"
    [] name = "drawAmountSummaries" -> "amount"
    [] name = "drawTaxBreakup" -> "tax"
    [] name = "drawBankAndRemarks" -> "bank"

\* The vertical positions of an instruction, counted from the top of the
\* page downwards: a text's baseline, a line's two ends, the upper and the
\* lower edge of a rectangle or an image.
TopDownPositions(p) ==
  CASE p.kind = "text" -> {A4_HEIGHT - p.y}
    [] p.kind = "line" -> {A4_HEIGHT - p.y1, A4_HEIGHT - p.y2}
    [] p.kind \in {"rect", "image"} -> {A4_HEIGHT - (p.y + p.height), A4_HEIGHT - p.y}

\* C15: every instruction a chained composer issued lies, top-down, between
\* the cursor the composer received and the cursor it returned, however many
\* lines its texts wrapped into.
C15_DrawsWithinItsInterval ==
  \A c \in DOMAIN calls :
    \A i \in DOMAIN page :
      page[i].sec = SectionOf(calls[c].name) =>
        \A v \in TopDownPositions(page[i]) :
          calls[c].top <= v /\ v <= calls[c].bottom

\* C15 witness: all seven chained composers have returned, with a logo taller
\* than the header's text and with the description, the amount in words, the
\* tax amount in words and the remarks each wrapped into several lines.
C15_Witness ==
  /\ Len(calls) = 7
  /\ PrimsOf("company", "image") # {}
  /\ BottomOf("drawCompanyHeader") > CompanyTextBottom
  /\ Cardinality(TextsOf("items", "description")) >= 2
  /\ Cardinality(TextsOf("amount", "amountInWords")) >= 2
  /\ Cardinality(TextsOf("tax", "taxAmountInWords")) >= 2
  /\ Cardinality(TextsOf("bank", "remarks")) >= 2

\* The stroked edges of an instruction: the four sides of a bordered
\* rectangle, or the line itself.  An edge runs along x or along y at the
\* coordinate at, from lo to hi.
Edge(along, at, a, b) ==
  [along |-> along, at |-> at, lo |-> Min(a, b), hi |-> Max(a, b)]

EdgesOf(p) ==
  CASE p.kind = "rect" ->
         {Edge("x", p.y, p.x, p.x + p.width),
          Edge("x", p.y + p.height, p.x, p.x + p.width),
          Edge("y", p.x, p.y, p.y + p.height),
          Edge("y", p.x + p.width, p.y, p.y + p.height)}
    [] p.kind = "line" ->
         IF p.y1 = p.y2 THEN {Edge("x", p.y1, p.x1, p.x2)}
         ELSE IF p.x1 = p.x2 THEN {Edge("y", p.x1, p.y1, p.y2)}
         ELSE {}
    [] OTHER -> {}

\* Two edges lie on each other along a segment of positive length.
Coincide(e, g) ==
  /\ e.along = g.along
  /\ e.at = g.at
  /\ Max(e.lo, g.lo) < Min(e.hi, g.hi)

\* The pairs of different instructions that stroke a common segment.
DoubledEdges ==
  {<<i, j>> \in (DOMAIN page) \X (DOMAIN page) :
     /\ i < j
     /\ \E e \in EdgesOf(page[i]) : \E g \in EdgesOf(page[j]) : Coincide(e, g)}

\* C16 as stated: within one render no two stroked instructions (frames and
\* separator lines) lie on each other along a segment of positive length.
C16_NoEdgeDrawnTwice == DoubledEdges = {}

\* C17 as stated: the render of an invoice without taxRates raises nothing,
\* and once drawTaxBreakup has returned its table shows both rates as 0%.
C17_MissingTaxRatesRenderCompletes ==
  data.invoice.taxRates = None =>
    /\ pc # "threw"
    /\ Composed("drawTaxBreakup") =>
         \A i \in TextsOf("tax", "cgstRate") \cup TextsOf("tax", "sgstRate") :
           page[i].chars = <<"0", "%">>

\* C19 as stated: whatever the number of lines the texts wrap into, the
\* cursor drawBankAndRemarks returns is at most A4_HEIGHT - MARGIN, the lower
\* side of the page's outer border.
C19_LastCursorInsideBorder ==
  Composed("drawBankAndRemarks") =>
    BottomOf("drawBankAndRemarks") <= A4_HEIGHT - MARGIN

(***************************************************************************)
(* Claims about the service, checked under SpecServer.                     *)
(***************************************************************************)
Done(r) == handlers[r].pc = "done"

\* The answer of the error middleware, whole.
GenericFailure ==
  [statusCode |-> 500,
   headers |-> {<<"Content-Type", "application/json">>},
   body |-> Some([message |-> "Internal server error"]),
   sent |-> 1]

\* An answer that carries the document given.
DocumentResponse(document) ==
  [statusCode |-> 200,
   headers |-> {<<"Content-Type", "application/pdf">>,
                <<"Content-Disposition", "attachment; filename=\"invoice.pdf\"">>},
   body |-> Some([pdf |-> document]),
   sent |-> 1]

\* The instructions of the page a response carries.
SentPage(r) == handlers[r].res.body[1].pdf.pages[1]

ImagesIn(prims, sec) ==
  {i \in DOMAIN prims : prims[i].kind = "image" /\ prims[i].sec = sec}

WarningsOf(what) ==
  Cardinality({i \in DOMAIN console :
                 console[i].level = "warn" /\ console[i].text = what})

\* C11: when reading or embedding the logo or the stamp fails, the image is
\* null for the rest of the request, one warning is logged for it, control
\* does not pass to the handler's catch on its account, and if nothing else
\* fails the request ends with status 200 and a document whose page has no
\* such image.
C11_ImageFailureIsNotFatal ==
  /\ \A r \in Requests :
       LET h == handlers[r]
       IN  /\ h.logoErr # None => h.logoImage = None
           /\ h.stampErr # None => h.stampImage = None
           /\ h.pc = "catch" => h.error # None
           /\ h.error # None =>
                h.error[1].step \notin {"readFileSync", "embedPng", "embedJpg"}
           /\ (Done(r) /\ h.error = None) =>
                /\ h.res = DocumentResponse(docs[h.pdfDoc[1]])
                /\ h.logoErr # None => ImagesIn(SentPage(r), "company") = {}
                /\ h.stampErr # None => ImagesIn(SentPage(r), "stamp") = {}
  /\ WarningsOf("Could not embed logo:")
       = Cardinality({r \in Requests : handlers[r].logoErr # None})
  /\ WarningsOf("Could not embed stamp:")
       = Cardinality({r \in Requests : handlers[r].stampErr # None})

\* C11 witness: a request whose logo file held no image and whose stamp was
\* embedded has ended with a document that shows the stamp and no logo.
C11_Witness ==
  \E r \in Requests :
    /\ Done(r)
    /\ handlers[r].logoErr # None
    /\ handlers[r].logoErr[1].step = "embedPng"
    /\ handlers[r].stampImage # None
    /\ handlers[r].res.statusCode = 200
    /\ ImagesIn(SentPage(r), "company") = {}
    /\ ImagesIn(SentPage(r), "stamp") # {}
    /\ WarningsOf("Could not embed logo:") >= 1

\* Nothing of a response has been set or sent.
Untouched(res) == res = FreshResponse

\* C12: a request whose create, embedFont, generateInvoicePDF or save step
\* failed ends with the generic failure and nothing else: status 500, the
\* message 'Internal server error' and not the error's own, no document
\* header, no document bytes.  Nothing is sent before a request ends, and a
\* request that has ended has sent exactly one response: the generic failure
\* if a step failed, the whole document if none did.
C12_FailureGivesGenericResponse ==
  \A r \in Requests :
    LET h == handlers[r]
    IN  /\ h.error # None => h.pc \in {"catch", "done"}
        /\ ~Done(r) => Untouched(h.res)
        /\ Done(r) =>
             /\ h.res.sent = 1
             /\ h.error # None =>
                  /\ h.res = GenericFailure
                  /\ h.res.body[1].message # h.error[1].message
             /\ h.error = None => h.res = DocumentResponse(docs[h.pdfDoc[1]])

\* C12 witness: generateInvoicePDF failed after part of the page was drawn,
\* and the request has ended with the generic failure.
C12_Witness ==
  \E r \in Requests :
    /\ Done(r)
    /\ handlers[r].error # None
    /\ handlers[r].error[1].step = "generateInvoicePDF"
    /\ docs[handlers[r].pdfDoc[1]].pages[1] # <<>>
    /\ handlers[r].res = GenericFailure

\* The document a request builds when it is the only one: one page with the
\* instructions of generateInvoicePDF for the images it embedded, and the
\* fonts and images embedded in that order.
AloneDocument(h) ==
  LET f == [normal |-> StandardFonts.normal, bold |-> StandardFonts.bold]
      im == [logo |-> h.logoImage, stamp |-> h.stampImage]
      embedder(path) == IF EndsWithPng(path[1]) THEN "embedPng" ELSE "embedJpg"
  IN  [pages |-> <<Flatten(generateInvoicePDF(createInvoiceData, f, im).steps)>>,
       embedded |-> <<"Helvetica", "Helvetica-Bold">>
                      \o (IF h.logoImage # None THEN <<embedder(LOGO_PATH)>> ELSE <<>>)
                      \o (IF h.stampImage # None THEN <<embedder(STAMP_PATH)>> ELSE <<>>)]

\* Every request has a document and a page of its own, and one that ended
\* answers as it does alone.
IndependentRequests ==
  /\ \A r \in Requests : \A q \in Requests :
       (r # q /\ handlers[r].pdfDoc # None /\ handlers[q].pdfDoc # None) =>
         handlers[r].page # handlers[q].page
  /\ \A r \in Requests :
       Done(r) =>
         handlers[r].res = IF handlers[r].error # None THEN GenericFailure
                           ELSE DocumentResponse(AloneDocument(handlers[r]))

\* No step writes the asset paths, and a step changes the locals of one
\* request only.
StepsOfOneRequest ==
  /\ LOGO_PATH' = LOGO_PATH
  /\ STAMP_PATH' = STAMP_PATH
  /\ \A r \in Requests : \A q \in Requests :
       (handlers'[r] # handlers[r] /\ handlers'[q] # handlers[q]) => r = q

\* C18: however the steps of the requests in flight interleave, each request
\* draws on a page of its own and its page and response are those it
\* produces alone; the asset paths, set when the process starts, are never
\* written by a request.
C18_RequestsAreIndependent == []IndependentRequests /\ [][StepsOfOneRequest]_vars

\* C18 witness: two requests have both ended with a document, one with the
\* logo and one without, each document holding one page.
C18_Witness ==
  \E r \in Requests : \E q \in Requests :
    /\ Done(r) /\ Done(q)
    /\ handlers[r].res.statusCode = 200
    /\ handlers[q].res.statusCode = 200
    /\ handlers[r].logoImage # None
    /\ handlers[q].logoImage = None
    /\ handlers[r].pdfDoc # handlers[q].pdfDoc
    /\ Len(handlers[r].res.body[1].pdf.pages) = 1
    /\ SentPage(r) # SentPage(q)

====
